---- MODULE Spec2Model ----
(***************************************************************************)
(* Model of tomopy.dataio.reader.Dataset: the constructor, read() and the  *)
(* validator _check_input_file(), with the HDF5 container reduced to what  *)
(* the code looks at (node presence, shapes, dtypes) and arrays reduced to *)
(* their origin, shape and dtype.                                          *)
(***************************************************************************)
EXTENDS Integers, Sequences, FiniteSets, Bags, TLC

(***************************************************************************)
(* Bounds of the model.                                                    *)
(***************************************************************************)
MaxProj == 2      \* longest projection axis of an on-disk data node
MaxHandlers == 3  \* handlers on the "tomopy" logger (one per __init__/read)

(***************************************************************************)
(* Python's None for an optional integer argument.  Slicing arguments of   *)
(* the model are non-negative, so a negative number is free to stand for   *)
(* it.                                                                     *)
(***************************************************************************)
None == 0 - 1

Min(a, b) == IF a < b THEN a ELSE b

RECURSIVE Prod(_)
Prod(s) == IF s = <<>> THEN 1 ELSE Head(s) * Prod(Tail(s))

(***************************************************************************)
(* numpy arrays: where the array came from, its shape and its dtype; for   *)
(* an array read from the container the window it was read through (one    *)
(* <<start, stop, step>> per axis), and for an array read or synthesized   *)
(* its elements in row-major order, each an exact fraction <<num, den>>.   *)
(* The elements of arrays passed in memory are not modelled.               *)
(* np.array(None) is a 0-d object array.                                   *)
(***************************************************************************)
Arr(src, shape, dtype) ==
    [src |-> src, shape |-> shape, dtype |-> dtype, win |-> <<>>, vals |-> <<>>]
NoneArr == Arr("none", <<>>, "object")

\* ndarray.size
Size(a) == Prod(a.shape)

\* np.squeeze on a shape: drop the axes of length one
Squeeze(shape) == SelectSeq(shape, LAMBDA d : d # 1)

\* shape[1:]
Trailing(shape) == IF Len(shape) = 0 THEN <<>> ELSE Tail(shape)

\* shape[1:2]
Slice12(shape) == IF Len(shape) >= 2 THEN <<shape[2]>> ELSE <<>>

(***************************************************************************)
(* The file system and the container, as far as the code inspects them.    *)
(***************************************************************************)
Node(shape, dtype) == [present |-> TRUE, shape |-> shape, dtype |-> dtype]
Absent == [present |-> FALSE, shape |-> <<>>, dtype |-> "none"]

File(kind, r, w, ext, ex, d, dw, dd, th) ==
    [kind |-> kind, readable |-> r, writable |-> w, ext |-> ext,
     exchange |-> ex, data |-> d, data_white |-> dw, data_dark |-> dd,
     theta |-> th]

\* file_name before the first read (the attribute does not exist yet)
NoFile == File("unset", FALSE, FALSE, "", FALSE, Absent, Absent, Absent, Absent)

\* container layouts, named by what is wrong with them
GoodData == Node(<<MaxProj, 2, 2>>, "uint16")
GoodWhite == Node(<<2, 2, 2>>, "uint16")
GoodDark == Node(<<1, 2, 2>>, "uint16")
GoodTheta(p) == Node(<<p>>, "float64")

\* data_white / data_dark nodes that are absent, not 3-D, or differ from the
\* data in the slice axis or in the pixel axis
BadAux ==
    {Absent, Node(<<2, 2>>, "uint16"), Node(<<1, 1, 2>>, "uint16"),
     Node(<<1, 2, 1>>, "uint16"), Node(<<1, 2, 3>>, "uint16")}

\* theta nodes that are absent, 0-d, 2-D, or of another length than p
BadTheta(p) ==
    {Absent, Node(<<>>, "float64"), Node(<<1, p>>, "float64")}
      \cup {Node(<<n>>, "float64") : n \in (1..MaxProj) \ {p}}

RW(ex, d, dw, dd, th) == File("file", TRUE, TRUE, ".h5", ex, d, dw, dd, th)

\* paths that are not a regular file
NonFiles ==
    {File("missing", FALSE, FALSE, ".h5", FALSE, Absent, Absent, Absent, Absent),
     File("dir", TRUE, TRUE, ".h5", FALSE, Absent, Absent, Absent, Absent),
     File("dir", TRUE, TRUE, ".txt", FALSE, Absent, Absent, Absent, Absent)}

\* regular files holding a good container, with every permission and extension
PermFiles ==
    {File("file", r, w, e, TRUE, GoodData, GoodWhite, GoodDark,
          GoodTheta(MaxProj)) :
        r \in BOOLEAN, w \in BOOLEAN, e \in {".h5", ".txt"}}
      \cup {File("file", TRUE, TRUE, ".hdf", TRUE, GoodData, GoodWhite,
                 GoodDark, GoodTheta(MaxProj))}

\* readable, writable .h5 files whose primary data is missing or not 3-D
NoDataFiles ==
    {RW(FALSE, Absent, Absent, Absent, Absent),
     RW(TRUE, Absent, Absent, Absent, Absent),
     RW(TRUE, Absent, GoodWhite, GoodDark, GoodTheta(MaxProj)),
     RW(TRUE, Node(<<2, 2>>, "uint16"), Absent, Absent, Absent),
     RW(TRUE, Node(<<2, 2>>, "uint16"), GoodWhite, GoodDark, GoodTheta(2)),
     RW(TRUE, Node(<<>>, "uint16"), GoodWhite, GoodDark, GoodTheta(1))}

\* readable, writable .h5 files with 3-D data: one auxiliary node at a time
\* is absent or wrong, or all three are absent
AuxFiles ==
    {RW(TRUE, GoodData, dw, GoodDark, GoodTheta(MaxProj)) : dw \in BadAux}
      \cup {RW(TRUE, GoodData, GoodWhite, dd, GoodTheta(MaxProj)) : dd \in BadAux}
      \cup UNION {{RW(TRUE, Node(<<p, 2, 2>>, "uint16"), GoodWhite, GoodDark, th) :
                      th \in BadTheta(p) \cup {GoodTheta(p)}} : p \in 1..MaxProj}
      \cup {RW(TRUE, GoodData, Absent, Absent, Absent)}

Files == NonFiles \cup PermFiles \cup NoDataFiles \cup AuxFiles

\* files that are also read through a window
WindowFiles ==
    {RW(TRUE, GoodData, GoodWhite, GoodDark, GoodTheta(MaxProj)),
     RW(TRUE, GoodData, Node(<<1, 2, 1>>, "uint16"), GoodDark, GoodTheta(MaxProj)),
     RW(TRUE, GoodData, Node(<<1, 2, 3>>, "uint16"), GoodDark, GoodTheta(MaxProj)),
     RW(TRUE, GoodData, Absent, Absent, Absent),
     File("file", TRUE, TRUE, ".txt", TRUE, GoodData, GoodWhite, GoodDark,
          GoodTheta(MaxProj))}

(***************************************************************************)
(* The slicing arguments of read().                                        *)
(***************************************************************************)
Slicing(ps, pe, pst, ss, se, sst, xs, xe, xst, ws, we, ds, de) ==
    [projections_start |-> ps, projections_end |-> pe, projections_step |-> pst,
     slices_start |-> ss, slices_end |-> se, slices_step |-> sst,
     pixels_start |-> xs, pixels_end |-> xe, pixels_step |-> xst,
     white_start |-> ws, white_end |-> we,
     dark_start |-> ds, dark_end |-> de]

NoSlicing == Slicing(None, None, None, None, None, None, None, None, None,
                     None, None, None, None)

Windows ==
    {     Slicing(1, None, None, None, None, None, None, None, None,
             None, None, None, None),
     Slicing(None, None, 2, None, 1, None, None, None, None,
             None, 1, 0, None),
     Slicing(None, None, None, None, None, None, 1, None, None,
             None, None, None, None)}

\* the calls of read, <<file, slicing arguments, log>>: every file with no
\* slicing argument, some files with a window, two files with another log
\* level
ReadInputs ==
    (Files \X {NoSlicing} \X {"INFO"})
      \cup (WindowFiles \X Windows \X {"INFO"})
      \cup ({RW(TRUE, GoodData, GoodWhite, GoodDark, GoodTheta(MaxProj)),
             File("missing", FALSE, FALSE, ".h5", FALSE, Absent, Absent,
                  Absent, Absent)}
            \X {NoSlicing} \X {"ERROR"})

\* log levels a caller passes to __init__ and read
\* (str(log).upper() is the identity on them)
LogLevels == {"INFO"}

(***************************************************************************)
(* In-memory arrays a caller passes to the constructor (None included).    *)
(***************************************************************************)
MemData == {NoneArr, Arr("mem", <<2, 2, 2>>, "float64"),
            Arr("mem", <<1, 1, 1>>, "float64")}
MemWhite == {NoneArr, Arr("mem", <<1, 2, 2>>, "float64"),
             Arr("mem", <<1, 2, 1>>, "float64")}
MemDark == {NoneArr, Arr("mem", <<1, 2, 2>>, "float64")}
MemTheta == {NoneArr, Arr("mem", <<1, 2>>, "float64"),
             Arr("mem", <<3>>, "float64"), Arr("mem", <<1>>, "float64")}

(***************************************************************************)
(* The state: the attributes of one Dataset object (TomoObj), the          *)
(* process-wide logger, the container handles the process holds open, and  *)
(* the position of the call in progress.                                   *)
(***************************************************************************)
VARIABLES
    FLAG_DATA, FLAG_WHITE, FLAG_DARK, FLAG_THETA, FLAG_FILE_CHECK,
    FLAG_DATA_RECON,
    data, data_white, data_dark, theta,
    log_level, provenance, file_name, slicing,
    handlers,      \* the bag of handlers attached to the "tomopy" logger
    ncalls,        \* how many constructor calls and reads the process made
    openHandles,   \* number of h5py.File objects opened and not closed
    pc,            \* "idle" or the next step of the read in progress
    outcome,       \* how the last call on the object ended
    call           \* what the read in progress (or the last one) has done

flags == <<FLAG_DATA, FLAG_WHITE, FLAG_DARK, FLAG_THETA, FLAG_FILE_CHECK,
           FLAG_DATA_RECON>>
arrays == <<data, data_white, data_dark, theta>>
attrs == <<log_level, provenance, file_name, slicing>>
logger == <<handlers, ncalls>>
vars == <<flags, arrays, attrs, logger, openHandles, pc, outcome, call>>

\* the contents of the Dataset a caller can compare
Contents == [flags |-> flags, slicing |-> slicing, arrays |-> arrays]

\* what the path checks of the validator never assign: the auxiliary flags,
\* FLAG_DATA_RECON and the four arrays
Kept == [FLAG_WHITE |-> FLAG_WHITE, FLAG_DARK |-> FLAG_DARK,
         FLAG_THETA |-> FLAG_THETA, FLAG_DATA_RECON |-> FLAG_DATA_RECON,
         arrays |-> arrays]

(***************************************************************************)
(* The "tomopy" logger.  A handler is its kind and its level; the logger   *)
(* itself is set to DEBUG and hands every record to each of its handlers,  *)
(* which writes it if the record's level is not below its own.             *)
(***************************************************************************)
\* the level _init_log and _set_log_file give a handler for a log level
\* name; a name they do not know leaves the handler at NOTSET
LevelNo(name) ==
    CASE name = "DEBUG" -> 10
      [] name = "INFO" -> 20
      [] name \in {"WARN", "WARNING"} -> 30
      [] name = "ERROR" -> 40
      [] OTHER -> 0

Handler(kind, name) == [kind |-> kind, level |-> LevelNo(name)]

\* logger.addHandler(h)
AddHandler(hs, h) == hs (+) SetToBag({h})

\* how many lines one record of the given level produces
Emitted(hs, name) ==
    BagCardinality([h \in {g \in BagToSet(hs) : g.level <= LevelNo(name)} |-> hs[h]])

\* the logical time of the process: the calls made so far
Now == ncalls.init + ncalls.read

\* nothing done yet by a read on this object
NoCall == [active |-> FALSE, failed |-> {}, vopen |-> 0, ropen |-> 0,
           vopened |-> FALSE, vdone |-> FALSE, written |-> {},
           args |-> NoSlicing, repeat |-> FALSE, before |-> <<>>,
           changed |-> FALSE, emitted |-> 0, prior |-> <<>>]

(***************************************************************************)
(* Dataset.__init__                                                        *)
(***************************************************************************)
\* the constructor argument was given, i.e. is not None
Supplied(a) == a.src # "none"

(***************************************************************************)
(* "if TomoObj.data != None:" compares an ndarray with None, and numpy     *)
(* changed what that does.  A numpy that answers the comparison with None  *)
(* as a whole ("legacy") gives True for every array, np.array(None)        *)
(* included.  A numpy that compares elementwise gives False for            *)
(* np.array(None) and True for a one-element array, and raises ValueError  *)
(* when an array of more elements is used as a condition; the constructor  *)
(* then raises and no object exists.                                       *)
(***************************************************************************)
NumpyBuilds == {"legacy", "elementwise"}

\* the value of "a != None" as a condition
NotNone(b, a) == IF b = "legacy" THEN TRUE ELSE a.src # "none"

\* "a != None" can be used as a condition
Branchable(b, a) == b = "legacy" \/ Size(a) <= 1

\* the constructor runs through with these arguments
Constructible(b, d, dw, dd, th) ==
    /\ Branchable(b, d)
    /\ Branchable(b, dw)
    /\ Branchable(b, dd)
    /\ Branchable(b, th)

\* np.array(np.squeeze(theta))
SqueezeArr(a) == IF a.src = "none" THEN a ELSE Arr(a.src, Squeeze(a.shape), a.dtype)

\* _init_provenance: a fresh dictionary with the date and the time of the
\* call
InitProvenance(t) == [k \in {"date", "time"} |-> t]

\* _init_log: one more stream handler
InitLog(hs, log) == AddHandler(hs, Handler("stream", log))

ConstructWith(b, d, dw, dd, th, log) ==
    /\ Constructible(b, d, dw, dd, SqueezeArr(th))
    /\ data' = d
    /\ data_white' = dw
    /\ data_dark' = dd
    /\ theta' = SqueezeArr(th)
    /\ log_level' = log
    /\ FLAG_DATA' = NotNone(b, d)
    /\ FLAG_WHITE' = NotNone(b, dw)
    /\ FLAG_DARK' = NotNone(b, dd)
    /\ FLAG_THETA' = NotNone(b, SqueezeArr(th))
    /\ FLAG_FILE_CHECK' = FALSE
    /\ FLAG_DATA_RECON' = FALSE
    /\ provenance' = InitProvenance(Now)
    /\ file_name' = NoFile
    /\ slicing' = NoSlicing
    /\ handlers' = InitLog(handlers, log)
    /\ ncalls' = [ncalls EXCEPT !.init = @ + 1]
    /\ pc' = "idle"
    /\ outcome' = "constructed"
    /\ call' = [NoCall EXCEPT !.emitted = Emitted(handlers', "DEBUG")]

Init ==
    /\ \E b \in NumpyBuilds, d \in MemData, dw \in MemWhite, dd \in MemDark,
          th \in MemTheta, log \in LogLevels :
        /\ Constructible(b, d, dw, dd, SqueezeArr(th))
        /\ data = d
        /\ data_white = dw
        /\ data_dark = dd
        /\ theta = SqueezeArr(th)
        /\ log_level = log
        /\ FLAG_DATA = NotNone(b, d)
        /\ FLAG_WHITE = NotNone(b, dw)
        /\ FLAG_DARK = NotNone(b, dd)
        /\ FLAG_THETA = NotNone(b, SqueezeArr(th))
        /\ handlers = InitLog(EmptyBag, log)
        /\ call = [NoCall EXCEPT !.emitted = Emitted(InitLog(EmptyBag, log), "DEBUG")]
    /\ FLAG_FILE_CHECK = FALSE
    /\ FLAG_DATA_RECON = FALSE
    /\ provenance = InitProvenance(0)
    /\ file_name = NoFile
    /\ slicing = NoSlicing
    /\ ncalls = [init |-> 1, read |-> 0]
    /\ openHandles = 0
    /\ pc = "idle"
    /\ outcome = "constructed"

\* a new Dataset is constructed in the same process (the old one is dropped)
Construct ==
    /\ pc = "idle"
    /\ BagCardinality(handlers) < MaxHandlers
    /\ \E b \in NumpyBuilds, d \in MemData, dw \in MemWhite, dd \in MemDark,
          th \in MemTheta, log \in LogLevels :
        ConstructWith(b, d, dw, dd, th, log)
    /\ UNCHANGED openHandles

(***************************************************************************)
(* Dataset.read, first lines: the arguments are stored as they are and     *)
(* _set_log_file attaches one more handler, then logs "logger file [ok]"   *)
(* at INFO.                                                                *)
(***************************************************************************)
\* the file handler of the earlier reads replaced by the new one
SetLogFileReplace(hs, log) ==
    SetToBag({Handler("file", log)})
      (+) [h \in {g \in BagToSet(hs) : g.kind = "stream"} |-> hs[h]]

\* _set_log_file: one more file handler
SetLogFile(hs, log) == AddHandler(hs, Handler("file", log))

ReadBegin ==
    /\ pc = "idle"
    /\ BagCardinality(handlers) < MaxHandlers
    /\ \E in \in ReadInputs :
        /\ file_name' = in[1]
        /\ slicing' = in[2]
        /\ log_level' = in[3]
        /\ handlers' = SetLogFile(handlers, in[3])
        /\ call' = [NoCall EXCEPT
                      !.active = TRUE,
                      !.args = in[2],
                      !.repeat = (call.active /\ in[1] = file_name
                                    /\ in[2] = call.args /\ in[3] = log_level),
                      !.before = IF call.active /\ in[1] = file_name
                                      /\ in[2] = call.args /\ in[3] = log_level
                                 THEN <<Contents>> ELSE <<>>,
                      !.changed = (/\ call.active
                                   /\ "file_name" \in DOMAIN provenance
                                   /\ provenance["file_name"] # in[1]),
                      !.emitted = Emitted(handlers', "INFO"),
                      !.prior = <<Kept>>]
    /\ ncalls' = [ncalls EXCEPT !.read = @ + 1]
    /\ pc' = "check_exists"
    /\ outcome' = "running"
    /\ UNCHANGED <<flags, arrays, provenance, openHandles>>

(***************************************************************************)
(* Dataset._check_input_file: the checks before the container is opened.   *)
(***************************************************************************)
\* os.path.isfile(file_name)
IsFile(f) == f.kind = "file"

\* os.access(file_name, R_OK) and os.access(file_name, W_OK)
AccessOk(f) == f.readable /\ f.writable

\* the extension is ".hdf" or ".h5"
ExtensionOk(f) == f.ext \in {".hdf", ".h5"}

\* FLAG_DATA after the extension check: set when the extension is right and
\* the path is a regular file, kept when it is right and the path is not,
\* cleared otherwise
ExtensionFlag(f, cur) ==
    IF ExtensionOk(f) THEN (IF IsFile(f) THEN TRUE ELSE cur) ELSE FALSE

\* h5py.File(file_name, 'r') succeeds on a readable regular file and raises
\* IOError on anything else
CanOpen(f) == f.kind = "file" /\ f.readable

Fail(cond, name) == IF cond THEN call.failed ELSE call.failed \cup {name}

CheckExists ==
    /\ pc = "check_exists"
    /\ FLAG_DATA' = IsFile(file_name)
    /\ call' = [call EXCEPT !.failed = Fail(IsFile(file_name), "existence")]
    /\ pc' = "check_access"
    /\ UNCHANGED <<FLAG_WHITE, FLAG_DARK, FLAG_THETA, FLAG_FILE_CHECK,
                   FLAG_DATA_RECON, arrays, attrs, logger, openHandles,
                   outcome>>

CheckAccess ==
    /\ pc = "check_access"
    /\ FLAG_DATA' = AccessOk(file_name)
    /\ call' = [call EXCEPT !.failed = Fail(AccessOk(file_name), "access")]
    /\ pc' = "check_extension"
    /\ UNCHANGED <<FLAG_WHITE, FLAG_DARK, FLAG_THETA, FLAG_FILE_CHECK,
                   FLAG_DATA_RECON, arrays, attrs, logger, openHandles,
                   outcome>>

CheckExtension ==
    /\ pc = "check_extension"
    /\ FLAG_DATA' = ExtensionFlag(file_name, FLAG_DATA)
    /\ call' = [call EXCEPT !.failed = Fail(ExtensionOk(file_name), "extension")]
    /\ pc' = "check_open"
    /\ UNCHANGED <<FLAG_WHITE, FLAG_DARK, FLAG_THETA, FLAG_FILE_CHECK,
                   FLAG_DATA_RECON, arrays, attrs, logger, openHandles,
                   outcome>>

\* "if TomoObj.FLAG_DATA:" true: the container is opened, or the open raises
ValidatorOpen ==
    /\ pc = "check_open"
    /\ FLAG_DATA
    /\ IF CanOpen(file_name)
       THEN /\ openHandles' = openHandles + 1
            /\ call' = [call EXCEPT !.vopen = @ + 1, !.vopened = TRUE,
                                    !.prior = <<>>]
            /\ pc' = "check_nodes"
            /\ UNCHANGED outcome
       ELSE /\ call' = [call EXCEPT !.vopen = @ + 1, !.prior = <<>>]
            /\ pc' = "idle"
            /\ outcome' = "IOError"
            /\ UNCHANGED openHandles
    /\ UNCHANGED <<flags, arrays, attrs, logger>>

\* the else branch resetting every flag of the Dataset
ValidatorSkipClears ==
    /\ pc = "check_open"
    /\ ~FLAG_DATA
    /\ FLAG_FILE_CHECK' = FALSE
    /\ FLAG_WHITE' = FALSE
    /\ FLAG_DARK' = FALSE
    /\ FLAG_THETA' = FALSE
    /\ call' = [call EXCEPT !.vdone = TRUE]
    /\ pc' = "read_gate"
    /\ UNCHANGED <<FLAG_DATA, FLAG_DATA_RECON, arrays, attrs, logger,
                   openHandles, outcome>>

\* "if TomoObj.FLAG_DATA:" false: the else branch ends the validator
ValidatorSkip ==
    /\ pc = "check_open"
    /\ ~FLAG_DATA
    /\ FLAG_FILE_CHECK' = FALSE
    /\ call' = [call EXCEPT !.vdone = TRUE]
    /\ pc' = "read_gate"
    /\ UNCHANGED <<FLAG_DATA, FLAG_WHITE, FLAG_DARK, FLAG_THETA,
                   FLAG_DATA_RECON, arrays, attrs, logger, openHandles,
                   outcome>>

(***************************************************************************)
(* Dataset._check_input_file: the checks on the open container.            *)
(***************************************************************************)
\* "path in f"
InFile(f, path) ==
    CASE path = "exchange" -> f.exchange
      [] path = "exchange/data" -> f.exchange /\ f.data.present
      [] path = "exchange/data_white" -> f.exchange /\ f.data_white.present
      [] path = "exchange/data_dark" -> f.exchange /\ f.data_dark.present
      [] path = "exchange/theta" -> f.exchange /\ f.theta.present

\* the else branch of the exchange/data check assigning True as the then
\* branch does
DataNodeFlagSlip(f) == TRUE

\* FLAG_DATA after the exchange-group check and the exchange/data check,
\* which assigns it last
DataNodeFlag(f) == InFile(f, "exchange/data")

\* the node checks setting the auxiliary flags when a node is there and
\* leaving them alone when it is not
CheckNodesSticky ==
    /\ pc = "check_nodes"
    /\ FLAG_DATA' = DataNodeFlag(file_name)
    /\ FLAG_WHITE' = (FLAG_WHITE \/ InFile(file_name, "exchange/data_white"))
    /\ FLAG_DARK' = (FLAG_DARK \/ InFile(file_name, "exchange/data_dark"))
    /\ FLAG_THETA' = (FLAG_THETA \/ InFile(file_name, "exchange/theta"))
    /\ call' = [call EXCEPT !.failed =
                   @ \cup (IF InFile(file_name, "exchange") THEN {}
                           ELSE {"exchange"})
                     \cup (IF InFile(file_name, "exchange/data") THEN {}
                           ELSE {"data_node"})]
    /\ pc' = "check_dims"
    /\ UNCHANGED <<FLAG_FILE_CHECK, FLAG_DATA_RECON, arrays, attrs, logger,
                   openHandles, outcome>>

CheckNodes ==
    /\ pc = "check_nodes"
    /\ FLAG_DATA' = DataNodeFlag(file_name)
    /\ FLAG_WHITE' = InFile(file_name, "exchange/data_white")
    /\ FLAG_DARK' = InFile(file_name, "exchange/data_dark")
    /\ FLAG_THETA' = InFile(file_name, "exchange/theta")
    /\ call' = [call EXCEPT !.failed =
                   @ \cup (IF InFile(file_name, "exchange") THEN {}
                           ELSE {"exchange"})
                     \cup (IF InFile(file_name, "exchange/data") THEN {}
                           ELSE {"data_node"})]
    /\ pc' = "check_dims"
    /\ UNCHANGED <<FLAG_FILE_CHECK, FLAG_DATA_RECON, arrays, attrs, logger,
                   openHandles, outcome>>

\* len(f[node].shape)
Ndim(node) == Len(node.shape)

DataDimsOk(f) == Ndim(f.data) = 3
WhiteDimsOk(f) == Ndim(f.data_white) = 3
DarkDimsOk(f) == Ndim(f.data_dark) = 3
ThetaDimsOk(f) == Ndim(f.theta) = 1 \/ Ndim(f.theta) = 0

\* f["/exchange/data"] raises KeyError when the node is absent; nothing
\* catches it.  So would the lookup of an auxiliary node whose flag is set.
CheckDims ==
    /\ pc = "check_dims"
    /\ IF \/ ~file_name.data.present
          \/ FLAG_WHITE /\ ~file_name.data_white.present
          \/ FLAG_DARK /\ ~file_name.data_dark.present
          \/ FLAG_THETA /\ ~file_name.theta.present
       THEN /\ pc' = "idle"
            /\ outcome' = "KeyError"
            /\ UNCHANGED <<flags, call>>
       ELSE /\ FLAG_DATA' = DataDimsOk(file_name)
            /\ FLAG_WHITE' = (FLAG_WHITE /\ WhiteDimsOk(file_name))
            /\ FLAG_DARK' = (FLAG_DARK /\ DarkDimsOk(file_name))
            /\ FLAG_THETA' = (FLAG_THETA /\ ThetaDimsOk(file_name))
            /\ call' = [call EXCEPT !.failed = Fail(DataDimsOk(file_name), "dims")]
            /\ pc' = "check_compat"
            /\ UNCHANGED <<FLAG_FILE_CHECK, FLAG_DATA_RECON, outcome>>
    /\ UNCHANGED <<arrays, attrs, logger, openHandles>>

\* f[aux].shape[1:2] == f["/exchange/data"].shape[1:2]
AuxCompatible(aux, d) == Slice12(aux.shape) = Slice12(d.shape)

\* f["/exchange/theta"].size == f["/exchange/data"].shape[0]; on 0-d data
\* the index raises IndexError, which the try block swallows, and the flag
\* keeps its value
ThetaCompatFlag(th, d) ==
    IF Ndim(d) = 0 THEN TRUE ELSE Prod(th.shape) = d.shape[1]

\* the consistency checks made against the array the Dataset holds
CheckCompatInMemory ==
    /\ pc = "check_compat"
    /\ FLAG_WHITE' = (FLAG_WHITE /\ AuxCompatible(file_name.data_white, data))
    /\ FLAG_DARK' = (FLAG_DARK /\ AuxCompatible(file_name.data_dark, data))
    /\ FLAG_THETA' = (FLAG_THETA /\ ThetaCompatFlag(file_name.theta, data))
    /\ FLAG_FILE_CHECK' = TRUE
    /\ call' = [call EXCEPT !.vdone = TRUE]
    /\ pc' = "read_gate"
    /\ UNCHANGED <<FLAG_DATA, FLAG_DATA_RECON, arrays, attrs, logger,
                   openHandles, outcome>>

\* the consistency checks, then "Good to go": FLAG_FILE_CHECK = True
CheckCompat ==
    /\ pc = "check_compat"
    /\ FLAG_WHITE' = (FLAG_WHITE /\ AuxCompatible(file_name.data_white, file_name.data))
    /\ FLAG_DARK' = (FLAG_DARK /\ AuxCompatible(file_name.data_dark, file_name.data))
    /\ FLAG_THETA' = (FLAG_THETA /\ ThetaCompatFlag(file_name.theta, file_name.data))
    /\ FLAG_FILE_CHECK' = TRUE
    /\ call' = [call EXCEPT !.vdone = TRUE]
    /\ pc' = "read_gate"
    /\ UNCHANGED <<FLAG_DATA, FLAG_DATA_RECON, arrays, attrs, logger,
                   openHandles, outcome>>

(***************************************************************************)
(* Dataset.read after the validator.                                       *)
(***************************************************************************)
\* number of elements h5py selects on an axis of length n with
\* start:stop:step (slice.indices clamps the bounds to the axis)
\* a slice written without a step (start:stop) has step None and selects
\* every element
SliceLen(start, stop, step, n) ==
    LET s == Min(start, n)
        e == Min(stop, n)
        st == IF step = None THEN 1 ELSE step
    IN  IF e <= s THEN 0 ELSE ((e - s - 1) \div st) + 1

\* the 0-based indices start:stop:step selects on an axis of length n, in
\* order
SliceIdx(start, stop, step, n) ==
    [k \in 1..SliceLen(start, stop, step, n) |->
        Min(start, n) + (k - 1) * (IF step = None THEN 1 ELSE step)]

\* the value stored on disk at a 0-based index of a node: one more than
\* its row-major position, so that all elements of a node differ
Elem3(node, i, j, k) ==
    <<1 + (i * node.shape[2] + j) * node.shape[3] + k, 1>>
Elem1(node, i) == <<1 + i, 1>>

\* the elements a 3-D window selects, in row-major order
Vals3(node, w) ==
    LET I == SliceIdx(w[1][1], w[1][2], w[1][3], node.shape[1])
        J == SliceIdx(w[2][1], w[2][2], w[2][3], node.shape[2])
        K == SliceIdx(w[3][1], w[3][2], w[3][3], node.shape[3])
        nj == Len(J)
        nk == Len(K)
    IN  [m \in 1..(Len(I) * nj * nk) |->
            Elem3(node, I[((m - 1) \div (nj * nk)) + 1],
                        J[(((m - 1) \div nk) % nj) + 1],
                        K[((m - 1) % nk) + 1])]

\* hdfdata[w] of a 3-D node, w one <<start, stop, step>> per axis
Read3(node, w) ==
    [src |-> "file",
     shape |-> <<SliceLen(w[1][1], w[1][2], w[1][3], node.shape[1]),
                 SliceLen(w[2][1], w[2][2], w[2][3], node.shape[2]),
                 SliceLen(w[3][1], w[3][2], w[3][3], node.shape[3])>>,
     dtype |-> node.dtype,
     win |-> w,
     vals |-> Vals3(node, w)]

\* hdfdata[w] of a 1-D node
Read1(node, w) ==
    [src |-> "file",
     shape |-> <<SliceLen(w[1][1], w[1][2], w[1][3], node.shape[1])>>,
     dtype |-> node.dtype,
     win |-> w,
     vals |-> [m \in 1..SliceLen(w[1][1], w[1][2], w[1][3], node.shape[1]) |->
                 Elem1(node, SliceIdx(w[1][1], w[1][2], w[1][3],
                                      node.shape[1])[m])]]

RECURSIVE SumNum(_)
SumNum(vals) == IF vals = <<>> THEN 0 ELSE Head(vals)[1] + SumNum(Tail(vals))

\* np.mean of an array whose elements are integers: sum over count
Mean(a) == <<SumNum(a.vals), Len(a.vals)>>

\* the default assigned whether or not the caller gave the bound
ResolveAlways(arg, default) == default

\* "if x is None: TomoObj.x = default"
Resolve(arg, default) == IF arg = None THEN default ELSE arg

\* the nine projection/slice/pixel bounds resolved against the data shape
ResolveData(sl, shape) ==
    [sl EXCEPT !.projections_start = Resolve(@, 0),
               !.projections_end = Resolve(@, shape[1]),
               !.projections_step = Resolve(@, 1),
               !.slices_start = Resolve(@, 0),
               !.slices_end = Resolve(@, shape[2]),
               !.slices_step = Resolve(@, 1),
               !.pixels_start = Resolve(@, 0),
               !.pixels_end = Resolve(@, shape[3]),
               !.pixels_step = Resolve(@, 1)]

ResolveWhite(sl, shape) ==
    [sl EXCEPT !.white_start = Resolve(@, 0),
               !.white_end = Resolve(@, shape[1])]

ResolveDark(sl, shape) ==
    [sl EXCEPT !.dark_start = Resolve(@, 0),
               !.dark_end = Resolve(@, shape[1])]

\* hdfdata[projections, slices, pixels]
DataWindow(sl, node) ==
    Read3(node,
          <<<<sl.projections_start, sl.projections_end, sl.projections_step>>,
            <<sl.slices_start, sl.slices_end, sl.slices_step>>,
            <<sl.pixels_start, sl.pixels_end, sl.pixels_step>>>>)

\* hdfdata[start:end, slices, pixels] of data_white or data_dark: the
\* leading axis has no step, which selects every element
AuxWindow(start, end, sl, node) ==
    Read3(node,
          <<<<start, end, None>>,
            <<sl.slices_start, sl.slices_end, sl.slices_step>>,
            <<sl.pixels_start, sl.pixels_end, sl.pixels_step>>>>)

\* the zeros without the mean added
SynthAuxZeros(d) ==
    [src |-> "synth",
     shape |-> <<1, d.shape[2], d.shape[3]>>,
     dtype |-> "float64",
     win |-> <<>>,
     vals |-> [m \in 1..(d.shape[2] * d.shape[3]) |-> <<0, 1>>]]

\* np.zeros((1, data.shape[1], data.shape[2])) + np.mean(data[:])
SynthAux(d) ==
    [src |-> "synth",
     shape |-> <<1, d.shape[2], d.shape[3]>>,
     dtype |-> "float64",
     win |-> <<>>,
     vals |-> [m \in 1..(d.shape[2] * d.shape[3]) |-> Mean(d)]]

\* theta read whole, without the projection window
ThetaWindowWhole(sl, node) == Read1(node, <<<<0, node.shape[1], 1>>>>)

\* hdfdata[projections] of theta
ThetaWindow(sl, node) ==
    Read1(node,
          <<<<sl.projections_start, sl.projections_end, sl.projections_step>>>>)

\* np.linspace(0, n, n)[i]: n points from 0 to n, both ends included
LinSpace(i, n) == IF n = 1 THEN <<0, 1>> ELSE <<i * n, n - 1>>

\* np.linspace(0, N, N) * 180 / (N + 1), N = data.shape[0]
SynthTheta(d) ==
    [src |-> "synth",
     shape |-> <<d.shape[1]>>,
     dtype |-> "float64",
     win |-> <<>>,
     vals |-> [m \in 1..d.shape[1] |->
                 <<LinSpace(m - 1, d.shape[1])[1] * 180,
                   LinSpace(m - 1, d.shape[1])[2] * (d.shape[1] + 1)>>]]

\* the cast applied to integer arrays only
Float32OfIntegers(a) ==
    IF a.dtype = "float64" THEN a ELSE [a EXCEPT !.dtype = "float32"]

\* astype(np.float32): the dtype changes; the rounding of the elements to
\* single precision is not modelled
Float32(a) == [a EXCEPT !.dtype = "float32"]

\* read branching on the file-check verdict instead of FLAG_DATA
ReadProceedsOnFileCheck == FLAG_FILE_CHECK

\* "if TomoObj.FLAG_DATA:" after the validator
ReadProceeds == FLAG_DATA

\* the file name recorded once and kept
SetFileNameOnce(prov, f) ==
    IF "file_name" \in DOMAIN prov THEN prov
    ELSE [k \in DOMAIN prov \cup {"file_name"} |->
             IF k = "file_name" THEN f ELSE prov[k]]

SetFileName(prov, f) ==
    [k \in DOMAIN prov \cup {"file_name"} |->
        IF k = "file_name" THEN f ELSE prov[k]]

\* provenance is written, FLAG_DATA is false: read returns
ReadSkip ==
    /\ pc = "read_gate"
    /\ ~ReadProceeds
    /\ provenance' = SetFileName(provenance, file_name)
    /\ pc' = "idle"
    /\ outcome' = "returned"
    /\ UNCHANGED <<flags, arrays, log_level, file_name, slicing, logger,
                   openHandles, call>>

\* provenance is written, the container is opened, the bounds are resolved
\* and the data window is read
ReadData ==
    /\ pc = "read_gate"
    /\ ReadProceeds
    /\ provenance' = SetFileName(provenance, file_name)
    /\ IF ~CanOpen(file_name)
       THEN /\ call' = [call EXCEPT !.ropen = @ + 1]
            /\ pc' = "idle"
            /\ outcome' = "IOError"
            /\ UNCHANGED <<data, slicing, openHandles>>
       ELSE /\ openHandles' = openHandles + 1
            /\ IF ~file_name.data.present
               THEN /\ call' = [call EXCEPT !.ropen = @ + 1]
                    /\ pc' = "idle"
                    /\ outcome' = "KeyError"
                    /\ UNCHANGED <<data, slicing>>
               ELSE IF Ndim(file_name.data) # 3
               THEN /\ call' = [call EXCEPT !.ropen = @ + 1]
                    /\ pc' = "idle"
                    /\ outcome' = "ValueError"
                    /\ UNCHANGED <<data, slicing>>
               ELSE /\ slicing' = ResolveData(slicing, file_name.data.shape)
                    /\ data' = DataWindow(slicing', file_name.data)
                    /\ call' = [call EXCEPT !.ropen = @ + 1,
                                            !.written = @ \cup {"data"}]
                    /\ pc' = "read_white"
                    /\ UNCHANGED outcome
    /\ UNCHANGED <<flags, data_white, data_dark, theta, log_level, file_name,
                   logger>>

\* an index of the wrong rank, or a missing node, raises
Readable3(node) == node.present /\ Ndim(node) = 3

ReadWhite ==
    /\ pc = "read_white"
    /\ IF FLAG_WHITE
       THEN IF Readable3(file_name.data_white)
            THEN /\ slicing' = ResolveWhite(slicing, file_name.data_white.shape)
                 /\ data_white' = AuxWindow(slicing'.white_start,
                                            slicing'.white_end, slicing',
                                            file_name.data_white)
                 /\ call' = [call EXCEPT !.written = @ \cup {"data_white"}]
                 /\ pc' = "read_dark"
                 /\ UNCHANGED <<FLAG_WHITE, outcome>>
            ELSE /\ pc' = "idle"
                 /\ outcome' = "TypeError"
                 /\ UNCHANGED <<FLAG_WHITE, data_white, slicing, call>>
       ELSE /\ data_white' = SynthAux(data)
            /\ FLAG_WHITE' = TRUE
            /\ call' = [call EXCEPT !.written = @ \cup {"data_white"}]
            /\ pc' = "read_dark"
            /\ UNCHANGED <<slicing, outcome>>
    /\ UNCHANGED <<FLAG_DATA, FLAG_DARK, FLAG_THETA, FLAG_FILE_CHECK,
                   FLAG_DATA_RECON, data, data_dark, theta, log_level,
                   provenance, file_name, logger, openHandles>>

ReadDark ==
    /\ pc = "read_dark"
    /\ IF FLAG_DARK
       THEN IF Readable3(file_name.data_dark)
            THEN /\ slicing' = ResolveDark(slicing, file_name.data_dark.shape)
                 /\ data_dark' = AuxWindow(slicing'.dark_start,
                                           slicing'.dark_end, slicing',
                                           file_name.data_dark)
                 /\ call' = [call EXCEPT !.written = @ \cup {"data_dark"}]
                 /\ pc' = "read_theta"
                 /\ UNCHANGED <<FLAG_DARK, outcome>>
            ELSE /\ pc' = "idle"
                 /\ outcome' = "TypeError"
                 /\ UNCHANGED <<FLAG_DARK, data_dark, slicing, call>>
       ELSE /\ data_dark' = SynthAux(data)
            /\ FLAG_DARK' = TRUE
            /\ call' = [call EXCEPT !.written = @ \cup {"data_dark"}]
            /\ pc' = "read_theta"
            /\ UNCHANGED <<slicing, outcome>>
    /\ UNCHANGED <<FLAG_DATA, FLAG_WHITE, FLAG_THETA, FLAG_FILE_CHECK,
                   FLAG_DATA_RECON, data, data_white, theta, log_level,
                   provenance, file_name, logger, openHandles>>

\* a slice of a 0-d (scalar) dataset raises in h5py; so does one of a
\* dataset of rank above one, or of a missing node
Readable1(node) == node.present /\ Ndim(node) = 1

ReadTheta ==
    /\ pc = "read_theta"
    /\ IF FLAG_THETA
       THEN IF Readable1(file_name.theta)
            THEN /\ theta' = ThetaWindow(slicing, file_name.theta)
                 /\ call' = [call EXCEPT !.written = @ \cup {"theta"}]
                 /\ pc' = "close"
                 /\ UNCHANGED <<FLAG_THETA, outcome>>
            ELSE /\ pc' = "idle"
                 /\ outcome' = "ValueError"
                 /\ UNCHANGED <<FLAG_THETA, theta, call>>
       ELSE /\ theta' = SynthTheta(data)
            /\ FLAG_THETA' = TRUE
            /\ call' = [call EXCEPT !.written = @ \cup {"theta"}]
            /\ pc' = "close"
            /\ UNCHANGED outcome
    /\ UNCHANGED <<FLAG_DATA, FLAG_WHITE, FLAG_DARK, FLAG_FILE_CHECK,
                   FLAG_DATA_RECON, data, data_white, data_dark, attrs,
                   logger, openHandles>>

\* f.close(), then every array is cast to float32
CloseAndCast ==
    /\ pc = "close"
    /\ openHandles' = openHandles - 1
    /\ data' = Float32(data)
    /\ data_white' = Float32(data_white)
    /\ data_dark' = Float32(data_dark)
    /\ theta' = Float32(theta)
    /\ pc' = "idle"
    /\ outcome' = "returned"
    /\ UNCHANGED <<flags, attrs, logger, call>>

Next ==
    \/ Construct
    \/ ReadBegin
    \/ CheckExists
    \/ CheckAccess
    \/ CheckExtension
    \/ ValidatorOpen
    \/ ValidatorSkip
    \/ CheckNodes
    \/ CheckDims
    \/ CheckCompat
    \/ ReadSkip
    \/ ReadData
    \/ ReadWhite
    \/ ReadDark
    \/ ReadTheta
    \/ CloseAndCast

Spec == Init /\ [][Next]_vars

TypeOK ==
    /\ flags \in [1..6 -> BOOLEAN]
    /\ pc \in {"idle", "check_exists", "check_access", "check_extension",
               "check_open", "check_nodes", "check_dims", "check_compat",
               "read_gate", "read_white", "read_dark", "read_theta", "close"}
    /\ outcome \in {"constructed", "running", "returned", "IOError",
                    "KeyError", "ValueError", "TypeError"}
    /\ BagCardinality(handlers) \in 1..MaxHandlers
    /\ openHandles \in 0..(2 * MaxHandlers)
    /\ file_name \in Files \cup {NoFile}

(***************************************************************************)
(* Properties.                                                             *)
(***************************************************************************)
\* a call of read on this object has ended
ReadEnded == pc = "idle" /\ call.active

\* the object is as the constructor or a completed read left it
Settled == pc = "idle" /\ outcome \in {"constructed", "returned"}

\* the file passes the existence, access and extension checks
PassesPathChecks(f) == IsFile(f) /\ AccessOk(f) /\ ExtensionOk(f)

\* C1: once the validator has finished with FLAG_DATA false, read opens no
\* container in its own body, writes none of data, data_white, data_dark,
\* theta, and returns.
C1_DataFlagGates ==
    (call.vdone /\ ~FLAG_DATA) =>
        /\ call.ropen = 0
        /\ call.written = {}
        /\ pc \in {"read_gate", "idle"}
        /\ pc = "idle" => outcome = "returned"

\* read has returned after a validator run that opened the container and
\* ended with FLAG_DATA false, on an object that held data before
C1_Witness ==
    /\ ReadEnded
    /\ outcome = "returned"
    /\ call.vdone
    /\ call.vopened
    /\ ~FLAG_DATA
    /\ data.src # "none"

\* C2: a validator run in which an error-level check failed finishes with
\* FLAG_DATA false (no later check sets it back to true).
C2_ErrorCheckTerminal ==
    (call.vdone /\ call.failed # {}) => ~FLAG_DATA

\* C3: after a read of a regular file with a recognized extension and no
\* read permission, FLAG_DATA and FLAG_FILE_CHECK are false and no open of
\* the container was attempted.
C3_NoReadPermission ==
    (ReadEnded /\ IsFile(file_name) /\ ExtensionOk(file_name)
       /\ ~file_name.readable) =>
        /\ ~FLAG_DATA
        /\ ~FLAG_FILE_CHECK
        /\ call.vopen = 0
        /\ call.ropen = 0

\* C4: when the validator has finished, FLAG_FILE_CHECK is true exactly if
\* no error-level check failed, and never true while FLAG_DATA is false.
C4_FileCheckIffData ==
    call.vdone =>
        /\ FLAG_FILE_CHECK <=> (call.failed = {})
        /\ ~(FLAG_FILE_CHECK /\ ~FLAG_DATA)

\* C5: between calls no container handle is open: every handle a read
\* opened was closed before the call returned or raised.
C5_HandlesClosed ==
    pc = "idle" => openHandles = 0

\* C6: after a read of a file that passes the existence, access and
\* extension checks and has no "exchange" group, FLAG_DATA is false and the
\* call has written none of data, data_white, data_dark, theta.
C6_NoExchangeGroup ==
    (ReadEnded /\ PassesPathChecks(file_name)
       /\ ~InFile(file_name, "exchange")) =>
        /\ ~FLAG_DATA
        /\ call.written = {}

\* such a read has ended, after the validator opened the container, on an
\* object that held data before
C6_Witness ==
    /\ ReadEnded
    /\ PassesPathChecks(file_name)
    /\ ~InFile(file_name, "exchange")
    /\ call.vopened
    /\ data.src # "none"

\* C7: a validator that has opened the container runs to its last step
\* whatever the layout: when the call has ended, the validator had finished.
C7_ValidatorReturns ==
    (ReadEnded /\ call.vopened) => call.vdone

\* an auxiliary node that is 3-D next to 3-D data and differs from it in a
\* trailing axis
Mismatched(aux, d) ==
    /\ Readable3(d)
    /\ Readable3(aux)
    /\ Trailing(aux.shape) # Trailing(d.shape)

\* C8: for 3-D data and a 3-D data_white (data_dark) that differs in the
\* slice or the pixel axis, the validator ends with FLAG_WHITE (FLAG_DARK)
\* false and the read that returns has synthesized the field.
C8_MismatchSynthesized ==
    /\ (pc = "read_gate" /\ call.vdone) =>
          /\ Mismatched(file_name.data_white, file_name.data) => ~FLAG_WHITE
          /\ Mismatched(file_name.data_dark, file_name.data) => ~FLAG_DARK
    /\ (ReadEnded /\ outcome = "returned" /\ FLAG_DATA) =>
          /\ Mismatched(file_name.data_white, file_name.data)
                => data_white.src = "synth"
          /\ Mismatched(file_name.data_dark, file_name.data)
                => data_dark.src = "synth"

\* C9: after the constructor or a completed read, a valid white (dark)
\* field next to valid data has the data's trailing two axes.
C9_AuxShapeMatches ==
    Settled =>
        /\ (FLAG_DATA /\ FLAG_WHITE) =>
              Trailing(data_white.shape) = Trailing(data.shape)
        /\ (FLAG_DATA /\ FLAG_DARK) =>
              Trailing(data_dark.shape) = Trailing(data.shape)

\* C10: after the constructor or a completed read, a valid theta next to
\* valid data has data.shape[0] entries.
C10_ThetaSizeMatches ==
    Settled =>
        ((FLAG_DATA /\ FLAG_THETA) =>
            (Len(data.shape) > 0 /\ Size(theta) = data.shape[1]))

\* ---------------------------------------------------------------------
\* Materialisation: the auxiliary fields, the windows, the precision
\* ---------------------------------------------------------------------

\* the four array fields of the Dataset
FieldNames == {"data", "data_white", "data_dark", "theta"}

\* a read that ran to its last statement
ReadReturned == ReadEnded /\ outcome = "returned"

\* equality and order of two fractions <<numerator, denominator>> with
\* positive denominators
FracEq(a, b) == a[1] * b[2] = b[1] * a[2]
FracLess(a, b) == a[1] * b[2] < b[1] * a[2]

\* C11: after any read that finishes with FLAG_DATA true, FLAG_WHITE,
\* FLAG_DARK and FLAG_THETA are true and all four fields were populated by
\* that read; no auxiliary node (a 0-D theta that passed the checks
\* included) makes read abort.
C11_AuxNeverAborts ==
    (ReadEnded /\ call.vdone /\ FLAG_DATA /\ "data" \in call.written) =>
        /\ outcome = "returned"
        /\ FLAG_WHITE /\ FLAG_DARK /\ FLAG_THETA
        /\ call.written = FieldNames

\* C12: the synthesized theta has N = data.shape[0] entries, entry i is
\* i * 180 / (N + 1); it is non-decreasing, starts at 0 and every entry
\* lies in [0, 180 * N / (N + 1)).
C12_SynthThetaFormula ==
    (ReadReturned /\ "theta" \in call.written /\ theta.src = "synth") =>
        LET N == data.shape[1]
        IN  /\ Len(theta.vals) = N
            /\ \A i \in 0..(N - 1) :
                 /\ FracEq(theta.vals[i + 1], <<i * 180, N + 1>>)
                 /\ FracLess(theta.vals[i + 1], <<180 * N, N + 1>>)
            /\ \A i \in 1..(N - 1) :
                 ~FracLess(theta.vals[i + 1], theta.vals[i])
            /\ N > 0 => theta.vals[1][1] = 0

\* whether a 0-based index lies in start:stop:step
InSlice(i, start, stop, step) ==
    start <= i /\ i < stop /\ (i - start) % step = 0

\* the on-disk indices of the data node the resolved window retains
Retained(node, sl) ==
    {x \in (0..(node.shape[1] - 1)) \X (0..(node.shape[2] - 1))
              \X (0..(node.shape[3] - 1)) :
        /\ InSlice(x[1], sl.projections_start, sl.projections_end,
                   sl.projections_step)
        /\ InSlice(x[2], sl.slices_start, sl.slices_end, sl.slices_step)
        /\ InSlice(x[3], sl.pixels_start, sl.pixels_end, sl.pixels_step)}

\* the sum of the on-disk samples at a set of indices
RECURSIVE SumAt(_, _)
SumAt(node, X) ==
    IF X = {} THEN 0
    ELSE LET x == CHOOSE y \in X : TRUE
         IN  Elem3(node, x[1], x[2], x[3])[1] + SumAt(node, X \ {x})

\* the mean of the retained window of the data node
WindowMean(node, sl) ==
    <<SumAt(node, Retained(node, sl)), Cardinality(Retained(node, sl))>>

\* the slice and pixel extents of the retained window
WindowExtent(node, sl) ==
    <<Cardinality({x[2] : x \in Retained(node, sl)}),
      Cardinality({x[3] : x \in Retained(node, sl)})>>

\* a field this read synthesized is the retained window's mean, once per
\* slice and pixel
IsWindowMean(a) ==
    /\ a.shape = <<1>> \o WindowExtent(file_name.data, slicing)
    /\ Len(a.vals) = a.shape[2] * a.shape[3]
    /\ \A m \in 1..Len(a.vals) :
         FracEq(a.vals[m], WindowMean(file_name.data, slicing))

\* C13: a synthesized data_white (data_dark) has shape (1, S, P), S and P
\* the slice and pixel extents of the retained primary-data window, and
\* every element equals the mean of that window.
C13_SynthAuxIsMean ==
    ReadReturned =>
        /\ ("data_white" \in call.written /\ data_white.src = "synth")
             => IsWindowMean(data_white)
        /\ ("data_dark" \in call.written /\ data_dark.src = "synth")
             => IsWindowMean(data_dark)

\* a read with a step and an end bound given, white and dark synthesized
C13_Witness ==
    /\ ReadReturned
    /\ data_white.src = "synth" /\ data_dark.src = "synth"
    /\ call.args.projections_step = 2 /\ call.args.slices_end = 1
    /\ data_white.shape = <<1, 1, 2>>
    /\ IsWindowMean(data_white)

\* a bound is the caller's when given and the default otherwise
ResolvedTo(arg, val, default) ==
    IF arg = None THEN val = default ELSE val = arg

\* C14: on a read with FLAG_DATA true, an unset start becomes 0, an unset
\* end the on-disk length of its axis (the field's own leading axis for
\* white and dark of a valid field), an unset step 1, and a supplied bound
\* is kept.
C14_BoundsResolved ==
    (ReadReturned /\ "data" \in call.written) =>
        LET a == call.args
            d == file_name.data.shape
        IN  /\ ResolvedTo(a.projections_start, slicing.projections_start, 0)
            /\ ResolvedTo(a.projections_end, slicing.projections_end, d[1])
            /\ ResolvedTo(a.projections_step, slicing.projections_step, 1)
            /\ ResolvedTo(a.slices_start, slicing.slices_start, 0)
            /\ ResolvedTo(a.slices_end, slicing.slices_end, d[2])
            /\ ResolvedTo(a.slices_step, slicing.slices_step, 1)
            /\ ResolvedTo(a.pixels_start, slicing.pixels_start, 0)
            /\ ResolvedTo(a.pixels_end, slicing.pixels_end, d[3])
            /\ ResolvedTo(a.pixels_step, slicing.pixels_step, 1)
            /\ data_white.src = "file" =>
                 /\ ResolvedTo(a.white_start, slicing.white_start, 0)
                 /\ ResolvedTo(a.white_end, slicing.white_end,
                               file_name.data_white.shape[1])
            /\ data_dark.src = "file" =>
                 /\ ResolvedTo(a.dark_start, slicing.dark_start, 0)
                 /\ ResolvedTo(a.dark_end, slicing.dark_end,
                               file_name.data_dark.shape[1])

\* a read with some bounds given and others left out, white and dark read
\* from the file
C14_Witness ==
    /\ ReadReturned
    /\ data_white.src = "file" /\ data_dark.src = "file"
    /\ call.args.projections_step = 2 /\ call.args.projections_end = None
    /\ slicing.projections_step = 2
    /\ slicing.projections_end = file_name.data.shape[1]
    /\ call.args.white_end = 1 /\ slicing.white_end = 1
    /\ call.args.dark_end = None /\ slicing.dark_end = 1

\* C15: read called twice in succession with identical arguments on an
\* unmodified file leaves, after the second call, the contents the first
\* call left: the six flags, the slicing parameters and the four arrays.
C15_ReadIdempotent ==
    (ReadEnded /\ call.repeat) => call.before = <<Contents>>

\* a repeated read whose first call synthesized the auxiliary fields
C15_Witness ==
    /\ ReadReturned /\ call.repeat
    /\ call.written = FieldNames
    /\ data_white.src = "synth" /\ data_dark.src = "synth"
    /\ theta.src = "synth"
    /\ FLAG_WHITE /\ FLAG_DARK /\ FLAG_THETA
    /\ call.before = <<Contents>>

\* C16: after a read that finishes with FLAG_DATA true, data, data_white,
\* data_dark and theta are all float32, read or synthesized, whatever the
\* precision on disk.
C16_UniformPrecision ==
    (ReadReturned /\ FLAG_DATA) =>
        /\ data.dtype = "float32"
        /\ data_white.dtype = "float32"
        /\ data_dark.dtype = "float32"
        /\ theta.dtype = "float32"

\* integer data and double-precision theta read from the file, white
\* synthesized
C16_Witness ==
    /\ ReadReturned /\ FLAG_DATA
    /\ data.src = "file" /\ file_name.data.dtype = "uint16"
    /\ theta.src = "file" /\ file_name.theta.dtype = "float64"
    /\ data_white.src = "synth"
    /\ data.dtype = "float32" /\ theta.dtype = "float32"
    /\ data_white.dtype = "float32"

\* C17: right after construction FLAG_FILE_CHECK and FLAG_DATA_RECON are
\* false and each of FLAG_DATA, FLAG_WHITE, FLAG_DARK, FLAG_THETA is true
\* iff its constructor argument was supplied.
C17_FlagsIffSupplied ==
    (pc = "idle" /\ outcome = "constructed") =>
        /\ ~FLAG_FILE_CHECK /\ ~FLAG_DATA_RECON
        /\ FLAG_DATA <=> Supplied(data)
        /\ FLAG_WHITE <=> Supplied(data_white)
        /\ FLAG_DARK <=> Supplied(data_dark)
        /\ FLAG_THETA <=> Supplied(theta)

\* C18: once a read has recorded provenance['file_name'], no later
\* operation on the same Dataset changes an existing provenance entry.
C18_WriteOnce ==
    [][(call'.active /\ "file_name" \in DOMAIN provenance) =>
          \A k \in DOMAIN provenance : provenance'[k] = provenance[k]]_vars

\* C18, as the code has it: no read changes the date and the time the
\* constructor wrote; provenance changes only where read records the file
\* name, after the validator has returned, and the entry is then the path
\* of that read, whatever an earlier read recorded.
C18_FileNameFollowsRead ==
    [][call'.active =>
          /\ provenance'["date"] = provenance["date"]
          /\ provenance'["time"] = provenance["time"]
          /\ IF pc = "read_gate"
             THEN provenance'["file_name"] = file_name
             ELSE provenance' = provenance]_vars

\* a read of another file than the one recorded has replaced the entry
C18_Witness ==
    /\ ReadEnded /\ call.changed /\ call.vdone
    /\ provenance["file_name"] = file_name

\* C19: data_white and data_dark read from the file are sliced on the
\* slice and pixel axes with the primary data's resolved (start, end,
\* step), on the leading axis with their own (start, end) and no step;
\* theta read from the file is sliced with the primary data's projection
\* triple.
C19_SharedWindows ==
    (ReadEnded /\ "data" \in call.written) =>
        LET proj == <<slicing.projections_start, slicing.projections_end,
                      slicing.projections_step>>
            slic == <<slicing.slices_start, slicing.slices_end,
                      slicing.slices_step>>
            pixl == <<slicing.pixels_start, slicing.pixels_end,
                      slicing.pixels_step>>
        IN  /\ data.win = <<proj, slic, pixl>>
            /\ ("data_white" \in call.written /\ data_white.src = "file") =>
                 data_white.win = <<<<slicing.white_start, slicing.white_end,
                                      None>>, slic, pixl>>
            /\ ("data_dark" \in call.written /\ data_dark.src = "file") =>
                 data_dark.win = <<<<slicing.dark_start, slicing.dark_end,
                                     None>>, slic, pixl>>
            /\ ("theta" \in call.written /\ theta.src = "file") =>
                 theta.win = <<proj>>

\* white, dark and theta read from the file under a window with a step
\* and an end bound
C19_Witness ==
    /\ ReadReturned
    /\ data_white.src = "file" /\ data_dark.src = "file"
    /\ theta.src = "file"
    /\ call.args.projections_step = 2 /\ call.args.slices_end = 1
    /\ data_white.win = <<<<0, 1, None>>, <<0, 1, 1>>, <<0, 2, 1>>>>
    /\ theta.win = <<<<0, file_name.data.shape[1], 2>>>>
    /\ data_white.shape = <<1, 1, 2>>

\* ---------------------------------------------------------------------
\* The "tomopy" logger
\* ---------------------------------------------------------------------

\* how many handlers of a kind the logger holds
HandlersOf(kind) ==
    BagCardinality([h \in {g \in BagToSet(handlers) : g.kind = kind} |->
                       handlers[h]])

\* how many handlers a record of the given numeric level passes
Passing(levelno) ==
    BagCardinality([h \in {g \in BagToSet(handlers) : g.level <= levelno} |->
                       handlers[h]])

\* C20: every read attaches one file handler and every construction one
\* stream handler, none is removed: after n constructions and k reads the
\* logger holds n + k handlers, and one record is emitted once per
\* attached handler whose level it passes.
C20_HandlersAccumulate ==
    /\ HandlersOf("stream") = ncalls.init
    /\ HandlersOf("file") = ncalls.read
    /\ BagCardinality(handlers) = ncalls.init + ncalls.read
    /\ call.emitted = IF call.active THEN Passing(20) ELSE Passing(10)

\* one construction and two reads: three handlers, and the record of the
\* second read written three times
C20_Witness ==
    /\ pc = "idle"
    /\ ncalls.init = 1 /\ ncalls.read = 2
    /\ BagCardinality(handlers) = 3
    /\ call.emitted = 3

\* ---------------------------------------------------------------------
\* What the validator leaves alone, and what it decides from
\* ---------------------------------------------------------------------

\* C21: on a read whose existence, access or extension check leaves
\* FLAG_DATA false, so that the container is never opened, FLAG_WHITE,
\* FLAG_DARK, FLAG_THETA, FLAG_DATA_RECON and the four arrays keep the
\* values they had before the call; the slicing attributes are the raw
\* arguments, FLAG_FILE_CHECK is false and provenance['file_name'] is the
\* path.
C21_PathFailureFrame ==
    (ReadEnded /\ call.vopen = 0 /\ ~FLAG_DATA) =>
        /\ outcome = "returned"
        /\ call.prior = <<Kept>>
        /\ call.written = {}
        /\ slicing = call.args
        /\ ~FLAG_FILE_CHECK
        /\ provenance["file_name"] = file_name

\* a read of a path that is not a file, on a Dataset an earlier read left
\* with data from a file and a synthesized white field
C21_Witness ==
    /\ ReadEnded /\ call.vopen = 0 /\ ~FLAG_DATA
    /\ ~IsFile(file_name)
    /\ FLAG_WHITE /\ FLAG_THETA
    /\ data_white.src = "synth" /\ data.src = "file"
    /\ call.prior = <<Kept>>

\* the node, dimension and consistency verdicts as the file alone gives
\* them
FileVerdict(f) ==
    [FLAG_DATA |-> Ndim(f.data) = 3,
     FLAG_WHITE |-> /\ InFile(f, "exchange/data_white")
                    /\ Ndim(f.data_white) = 3
                    /\ Slice12(f.data_white.shape) = Slice12(f.data.shape),
     FLAG_DARK |-> /\ InFile(f, "exchange/data_dark")
                   /\ Ndim(f.data_dark) = 3
                   /\ Slice12(f.data_dark.shape) = Slice12(f.data.shape),
     FLAG_THETA |-> /\ InFile(f, "exchange/theta")
                    /\ Ndim(f.theta) <= 1
                    /\ Ndim(f.data) > 0 => Size(f.theta) = f.data.shape[1],
     FLAG_FILE_CHECK |-> TRUE]

\* C22: when the validator has opened the container and completed,
\* FLAG_DATA, FLAG_WHITE, FLAG_DARK, FLAG_THETA and FLAG_FILE_CHECK are a
\* function of the file alone, whatever flags and arrays the Dataset held
\* before the call.
C22_VerdictFromFileOnly ==
    (pc = "read_gate" /\ call.vopened /\ call.vdone) =>
        [FLAG_DATA |-> FLAG_DATA, FLAG_WHITE |-> FLAG_WHITE,
         FLAG_DARK |-> FLAG_DARK, FLAG_THETA |-> FLAG_THETA,
         FLAG_FILE_CHECK |-> FLAG_FILE_CHECK] = FileVerdict(file_name)

\* a Dataset built from in-memory arrays validates a file without a usable
\* white node
C22_Witness ==
    /\ pc = "read_gate" /\ call.vopened /\ call.vdone
    /\ data.src = "mem" /\ data_white.src = "mem"
    /\ FLAG_DATA /\ ~FLAG_WHITE /\ FLAG_DARK /\ FLAG_FILE_CHECK

====
